---- MODULE Spec2Model ----
(***************************************************************************)
(* A model of socketio.c, the socket layer of old-joera: sio_socket,       *)
(* sio_connect, sio_send, sio_recv, sio_close and their helpers            *)
(* is_connected and sio_select, for both builds of the file (_WIN32 and    *)
(* __linux__).  The platform calls (socket, connect, send, recv, select,   *)
(* fcntl, ioctlsocket, getsockopt, close, closesocket, WSAStartup,         *)
(* WSACleanup, inet_pton) are the environment: each call's result is       *)
(* drawn from the results that call can give.                              *)
(***************************************************************************)
EXTENDS Integers, Sequences, FiniteSets, TLC

\* ------------------------------------------------------------- bounds
\* The longest buffer a transfer is asked to move.
MaxLen == 2
\* The largest value given to sio_set_maxnfails.
MaxFails == 3
\* The largest descriptor number of the process's descriptor table.
MaxFd == 4

\* -------------------------------------------------- program constants
SELECT_READ == 0
SELECT_WRITE == 1
\* The address family, which sio_connect also hands to connect() as the
\* descriptor (line 131).
AF_INET == 2
\* socketio.h: the invalid descriptor, and the failure result of a call.
INV_SOCK == -1
SOCK_ERR == -1
SOCK_ERROR == -1
\* socketio.h: the option bit IS_NONBLOCK tests.
SIO_NONBLOCK == 1
\* fcntl.h: the access mode F_GETFL reports for a socket.
O_RDWR == 2

\* The caller's struct socketio objects.
Conns == {1, 2}
\* Descriptors 0..2 are the process's standard streams; sockets are
\* allocated from 3 up.
FirstSock == AF_INET + 1
SockFds == FirstSock..MaxFd
Plats == {"win32", "linux"}
Opts == {SIO_NONBLOCK}
Timeouts == {1, 2}
FailVals == 0..MaxFails
\* The longest recorded history of one transfer call: long enough for
\* MaxFails + 2 would-blocks around one partial transfer.
MaxHist == MaxFails + 3

VARIABLES
    plat,        \* the build: "win32" or "linux"
    socket,      \* sio->socket of each struct socketio
    opts,        \* sio->opts, as the set of bits set
    timeout,     \* sio->timeout
    maxnfails,   \* sio->maxnfails
    live,        \* the platform's open socket descriptors
    owner,       \* descriptor -> the struct whose sio_socket allocated it (0: none)
    nonblk,      \* the descriptors in non-blocking mode
    wsa,         \* Winsock's count of WSAStartup calls not yet cleaned up
    last,        \* what the last lifecycle call did (its platform calls, its result)
    pc,          \* "idle", or the transfer loop running: "send" / "recv"
    cur,         \* the struct the running (or last) transfer is on
    len,         \* its len argument
    total_bytes, \* its local total_bytes
    nfails,      \* its local nfails
    ret,         \* the value the last transfer returned (1: none yet)
    site,        \* the line of the return statement it returned from (0: none yet)
    hist,        \* the results of the platform send/recv calls of the call, in order
    wait,        \* the sio_select of the last pass of the loop, if it made one
    buf,         \* the caller's buffer, buf[1] being the byte at address buf
    wire,        \* the bytes the platform took (send) or delivered (recv), in order
    nwaits,      \* the sio_select calls made in the passes that hist records
    runwaits     \* those made in a row, up to and including the last pass

lifeVars == <<socket, opts, timeout, maxnfails, live, owner, nonblk, wsa, last>>
xferVars == <<pc, cur, len, total_bytes, nfails, ret, site, hist, wait,
              buf, wire, nwaits, runwaits>>
vars == <<plat, socket, opts, timeout, maxnfails, live, owner, nonblk, wsa, last,
          pc, cur, len, total_bytes, nfails, ret, site, hist, wait,
          buf, wire, nwaits, runwaits>>

\* ------------------------------------------------- the platform calls

\* WSAStartup: counts one more user of Winsock.
WSAStartup(w) == w + 1

\* WSACleanup: one user fewer; the last one tears Winsock down, which
\* deallocates every socket still open; with no user it fails.
WSACleanup(w, lv) ==
    IF w = 0 THEN [wsa |-> 0, live |-> lv]
    ELSE IF w = 1 THEN [wsa |-> 0, live |-> {}]
    ELSE [wsa |-> w - 1, live |-> lv]

\* close / closesocket: releases fd when it is an open descriptor, fails
\* (EBADF / WSAENOTSOCK) otherwise.
CloseFd(fd, lv) == lv \ {fd}

\* socket(): a descriptor not in use, or INV_SOCK (always, when none is free).
SocketResults(lv) == (SockFds \ lv) \cup {INV_SOCK}

NoCall == [op |-> "none", c |-> 0, ret |-> 0, pre |-> INV_SOCK, fd |-> INV_SOCK,
           rel |-> {}, new |-> {}, wsaup |-> 0, nb |-> FALSE,
           parsed |-> 1, att |-> <<>>, code |-> "none", waits |-> <<>>,
           sel |-> 0, soerr |-> 0, wsapre |-> 0, cleanups |-> 0]

\* ------------------------------------------------------ configuration

IS_NONBLOCK(o) == SIO_NONBLOCK \in o

\* sio_set_option: sio->opts |= opt
sio_set_option(c, opt) ==
    /\ pc = "idle"
    /\ opts' = [opts EXCEPT ![c] = @ \cup {opt}]
    /\ last' = [NoCall EXCEPT !.op = "set", !.c = c, !.pre = socket[c]]
    /\ UNCHANGED <<plat, socket, timeout, maxnfails, live, owner, nonblk, wsa>>
    /\ UNCHANGED xferVars

\* sio_set_timeout: sio->timeout = s
sio_set_timeout(c, s) ==
    /\ pc = "idle"
    /\ timeout' = [timeout EXCEPT ![c] = s]
    /\ last' = [NoCall EXCEPT !.op = "set", !.c = c, !.pre = socket[c]]
    /\ UNCHANGED <<plat, socket, opts, maxnfails, live, owner, nonblk, wsa>>
    /\ UNCHANGED xferVars

\* sio_set_maxnfails: sio->maxnfails = n
sio_set_maxnfails(c, n) ==
    /\ pc = "idle"
    /\ maxnfails' = [maxnfails EXCEPT ![c] = n]
    /\ last' = [NoCall EXCEPT !.op = "set", !.c = c, !.pre = socket[c]]
    /\ UNCHANGED <<plat, socket, opts, timeout, live, owner, nonblk, wsa>>
    /\ UNCHANGED xferVars

\* ---------------------------------------------------------- lifecycle

\* The WSACleanup() calls made on the way to a return of sio_socket (75,
\* 97, 101) or to the end of sio_close (274): one on win32 at line 72, one
\* at line 267, the latter also through the sio_close of line 100.
Cleanups(p, s) == IF p = "win32" /\ s \in {75, 101, 274} THEN 1 ELSE 0

\* sio_close: WSACleanup() and closesocket() on win32, close() on linux,
\* then sio->socket = INV_SOCK.  The platform state (wsa, live) after it.
sio_close_platform(p, fd, w, lv) ==
    IF p = "win32"
    THEN LET a == WSACleanup(w, lv)
         IN  [wsa |-> a.wsa, live |-> CloseFd(fd, a.live)]
    ELSE [wsa |-> w, live |-> CloseFd(fd, lv)]

\* The handle sio_close leaves in sio->socket (line 274).
sio_close_handle(fd) == INV_SOCK

\* owner and nonblk, cut down to the descriptors still open.
OwnerOn(own, lv) == [fd \in SockFds |-> IF fd \in lv THEN own[fd] ELSE 0]

sio_close(c) ==
    /\ pc = "idle"
    /\ LET a == sio_close_platform(plat, socket[c], wsa, live)
       IN  /\ socket' = [socket EXCEPT ![c] = sio_close_handle(socket[c])]
           /\ wsa' = a.wsa
           /\ live' = a.live
           /\ owner' = OwnerOn(owner, a.live)
           /\ nonblk' = nonblk \cap a.live
           /\ last' = [NoCall EXCEPT !.op = "close", !.c = c, !.pre = socket[c],
                                     !.rel = live \ a.live, !.wsapre = wsa,
                                     !.cleanups = Cleanups(plat, 274)]
    /\ UNCHANGED <<plat, opts, timeout, maxnfails>>
    /\ UNCHANGED xferVars

\* Line 91: F_SETFL is called only when F_GETFL's flags pass the test.
SetflCalled(flags) == ~(flags < 1)

\* NonblockFailed without the test of F_SETFL's / ioctlsocket's result.
NonblockFailed_unchecked(p, flags, setres) ==
    IF p = "win32" THEN FALSE
    ELSE ~SetflCalled(flags)

\* Whether sio_socket takes the non-blocking flag as not applied (lines 83
\* and 91-92): win32 tests ioctlsocket's result, linux F_GETFL's flags and
\* F_SETFL's result.
NonblockFailed(p, flags, setres) ==
    IF p = "win32" THEN setres # 0
    ELSE ~SetflCalled(flags) \/ setres < 0

\* Whether the platform has put the descriptor in non-blocking mode:
\* ioctlsocket / F_SETFL was called and returned 0.
Applied(p, flags, setres) ==
    IF p = "win32" THEN setres = 0
    ELSE SetflCalled(flags) /\ setres = 0

\* What sio_socket does once WSAStartup (win32) has succeeded, given the
\* results of socket(), of F_GETFL and of F_SETFL / ioctlsocket:
\* the handle, the platform state and the value returned.
sio_socket_body(p, o, w, lv, s, flags, setres) ==
    IF s = INV_SOCK THEN
        \* lines 71-75
        LET a == IF p = "win32" THEN WSACleanup(w, lv) ELSE [wsa |-> w, live |-> lv]
        IN  [handle |-> s, wsa |-> a.wsa, live |-> a.live, nb |-> FALSE,
             ret |-> -1, site |-> 75]
    ELSE IF IS_NONBLOCK(o) /\ NonblockFailed(p, flags, setres) THEN
        \* lines 99-101: error: sio_close(sio)
        LET a == sio_close_platform(p, s, w, lv \cup {s})
        IN  [handle |-> sio_close_handle(s), wsa |-> a.wsa, live |-> a.live,
             nb |-> FALSE, ret |-> -1, site |-> 101]
    ELSE
        \* line 97
        [handle |-> s, wsa |-> w, live |-> lv \cup {s},
         nb |-> IS_NONBLOCK(o) /\ Applied(p, flags, setres),
         ret |-> 0, site |-> 97]

sio_socket(c) ==
    /\ pc = "idle"
    /\ \E startok \in BOOLEAN, s \in SocketResults(live),
          flags \in {-1, O_RDWR}, setres \in {-1, 0} :
        /\ plat = "linux" => startok
        /\ IF ~startok THEN
               \* lines 64-65: WSAStartup failed
               /\ last' = [NoCall EXCEPT !.op = "socket", !.c = c, !.pre = socket[c],
                                         !.ret = -1, !.wsapre = wsa]
               /\ UNCHANGED <<socket, live, owner, nonblk, wsa>>
           ELSE
               LET w == IF plat = "win32" THEN WSAStartup(wsa) ELSE wsa
                   r == sio_socket_body(plat, opts[c], w, live, s, flags, setres)
                   own == IF s = INV_SOCK THEN owner ELSE [owner EXCEPT ![s] = c]
               IN  /\ socket' = [socket EXCEPT ![c] = r.handle]
                   /\ wsa' = r.wsa
                   /\ live' = r.live
                   /\ owner' = OwnerOn(own, r.live)
                   /\ nonblk' = (nonblk \cap r.live)
                                  \cup (IF r.nb THEN {s} ELSE {})
                   /\ last' = [NoCall EXCEPT !.op = "socket", !.c = c,
                                  !.pre = socket[c], !.ret = r.ret, !.fd = s,
                                  !.rel = (live \cup ({s} \ {INV_SOCK})) \ r.live,
                                  !.new = r.live \ live,
                                  !.wsaup = 1, !.nb = r.nb, !.wsapre = wsa,
                                  !.cleanups = Cleanups(plat, r.site)]
    /\ UNCHANGED <<plat, opts, timeout, maxnfails>>
    /\ UNCHANGED xferVars

\* ------------------------------------------------------------ connect

\* inet_pton(AF_INET, host, ...): 1 when host is a dotted-decimal IPv4
\* address, 0 when it is not.
Hosts == {"127.0.0.1", "localhost"}
inet_pton(host) == IF host = "127.0.0.1" THEN 1 ELSE 0

\* The error codes connect() can leave, per build.
ConnectCodes(p) ==
    IF p = "win32" THEN {"WSAEINPROGRESS", "WSAEWOULDBLOCK", "WSAECONNREFUSED"}
    ELSE {"EINPROGRESS", "EAGAIN", "ECONNREFUSED"}

\* select()'s results: an error, a timeout, one descriptor ready.
SelectResults == {-1, 0, 1}
\* SO_ERROR of the socket: 0, or the error that is pending on it.
SoErrors == {0, 111}

\* sio_select (lines 323-345): the descriptor sets handed to select() ...
sio_select_sets(fd, mode, tmo) ==
    [fd |-> fd, rd |-> (mode = SELECT_READ), wr |-> (mode = SELECT_WRITE),
     tmo |-> tmo]
\* ... and its result, from select()'s (lines 340-343).
sio_select(res) == IF res = 1 THEN 1 ELSE 0

\* is_connected (lines 282-315), given select()'s result and SO_ERROR.
is_connected(p, selres, soerr) ==
    LET res == sio_select(selres)
    IN  IF p = "win32" THEN (IF res = 1 THEN 0 ELSE -1)
        ELSE IF res = 1 THEN (IF soerr # 0 THEN -1 ELSE 0)
        ELSE -1

\* ConnectPending without the WSAEWOULDBLOCK case and retrying on EAGAIN.
ConnectPending_codes(p, code) ==
    IF p = "win32" THEN code = "WSAEINPROGRESS"
    ELSE code \in {"EINPROGRESS", "EAGAIN"}

\* Lines 138-150: whether connect()'s error code sends sio_connect to
\* is_connected.
ConnectPending(p, code) ==
    IF p = "win32" THEN code \in {"WSAEINPROGRESS", "WSAEWOULDBLOCK"}
    ELSE code = "EINPROGRESS"

\* The descriptor sio_connect hands to connect() (line 131).
ConnectFd(sock) == AF_INET

\* Whether sio_connect goes on to connect() given inet_pton's result
\* (lines 122-131: the result is not looked at).
ConnectProceeds(parsed) == TRUE

sio_connect(c, host) ==
    /\ pc = "idle"
    /\ \E res \in {0, SOCK_ERROR}, code \in ConnectCodes(plat),
          selres \in SelectResults, soerr \in SoErrors :
        LET parsed == inet_pton(host)
            pend == res = SOCK_ERROR /\ ConnectPending(plat, code)
            me == [NoCall EXCEPT !.op = "connect", !.c = c, !.pre = socket[c],
                                 !.parsed = parsed]
        IN  IF ~ConnectProceeds(parsed) THEN
                /\ selres = 0 /\ soerr = 0 /\ res = 0
                /\ code = CHOOSE x \in ConnectCodes(plat) : TRUE
                /\ last' = [me EXCEPT !.ret = -1]
            ELSE IF res # SOCK_ERROR THEN
                \* line 154
                /\ selres = 0 /\ soerr = 0
                /\ code = CHOOSE x \in ConnectCodes(plat) : TRUE
                /\ last' = [me EXCEPT !.att = <<ConnectFd(socket[c])>>,
                                      !.code = "ok", !.ret = 0]
            ELSE IF pend THEN
                \* lines 141 and 148
                /\ last' = [me EXCEPT
                       !.att = <<ConnectFd(socket[c])>>, !.code = code,
                       !.waits = <<sio_select_sets(socket[c], SELECT_WRITE,
                                                   timeout[c])>>,
                       !.sel = selres, !.soerr = soerr,
                       !.ret = is_connected(plat, selres, soerr)]
            ELSE
                \* lines 143 and 150
                /\ selres = 0 /\ soerr = 0
                /\ last' = [me EXCEPT !.att = <<ConnectFd(socket[c])>>,
                                      !.code = code, !.ret = -1]
    /\ UNCHANGED <<plat, socket, opts, timeout, maxnfails, live, owner, nonblk, wsa>>
    /\ UNCHANGED xferVars

\* ----------------------------------------------------------- transfer

\* The error codes send() and recv() can leave, per build.  On linux
\* EWOULDBLOCK is EAGAIN's other name.
XferCodes(p) ==
    IF p = "win32" THEN {"WSAEWOULDBLOCK", "WSAECONNRESET"}
    ELSE {"EAGAIN", "ECONNRESET"}
BadFdCode(p) == IF p = "win32" THEN "WSAENOTSOCK" ELSE "EBADF"

\* One result of a platform send()/recv() asked for n bytes on fd: a
\* count from 0 to n, or SOCK_ERR and an error code; on a descriptor
\* that is not open, only SOCK_ERR and the bad-descriptor code.
XferResults(p, fd, lv, n) ==
    IF fd \in lv
    THEN [t : 0..n, e : {"none"}] \cup [t : {SOCK_ERR}, e : XferCodes(p)]
    ELSE {[t |-> SOCK_ERR, e |-> BadFdCode(p)]}

\* WouldBlock taking every error code for would-block.
WouldBlock_any(p, code) == TRUE

\* Lines 181-182, 189-190, 230-231, 238-239: the would-block test.
WouldBlock(p, code) ==
    IF p = "win32" THEN code = "WSAEWOULDBLOCK"
    ELSE code = "EAGAIN" \/ code = "EWOULDBLOCK"

\* BudgetSpent with the test off by one.
BudgetSpent_late(nf, mx) == nf > mx

\* Lines 197 and 245: the retry budget is used up.
BudgetSpent(nf, mx) == nf >= mx

\* NfailsAfterProgress without the reset.
NfailsAfterProgress_kept(nf) == nf

\* Lines 201 and 251: nfails after a call that moved bytes.
NfailsAfterProgress(nf) == 0

\* LoopGoesOn as the test of a loop that runs its body at least once.
LoopGoesOn_once(tb, l) == tb <= l

\* LoopGoesOn leaving the loop one byte early.
LoopGoesOn_short(tb, l) == tb + 1 < l

\* Lines 172 and 222: the loop goes on.
LoopGoesOn(tb, l) == tb < l

\* The mode sio_select is called with: the one written in the linux
\* build; the win32 build writes sio_select(sio), which leaves it open.
SelectModes(p, m) == IF p = "win32" THEN {SELECT_READ, SELECT_WRITE, 2} ELSE {m}

Waited(s, res) == [fd |-> s.fd, rd |-> s.rd, wr |-> s.wr, tmo |-> s.tmo, res |-> res]
NoWait == [fd |-> INV_SOCK, rd |-> FALSE, wr |-> FALSE, tmo |-> 0, res |-> 0]

\* One pass of sio_send's loop body (lines 174-202) on the result r of
\* send(): the locals after it, whether sio_select was called, and the
\* return statement reached (0: none).
sio_send_body(p, tb, nf, mx, r) ==
    IF r.t = SOCK_ERR THEN
        IF ~WouldBlock(p, r.e)
        THEN [tb |-> tb, nf |-> nf + 1, sel |-> FALSE,
              site |-> IF p = "win32" THEN 185 ELSE 193]
        ELSE [tb |-> tb, nf |-> nf + 1, sel |-> TRUE,
              site |-> IF BudgetSpent(nf + 1, mx) THEN 198 ELSE 0]
    ELSE [tb |-> tb + r.t, nf |-> NfailsAfterProgress(nf), sel |-> FALSE, site |-> 0]

\* sio_recv_body as a copy of sio_send's, without the branch of a 0 result.
sio_recv_body_as_send(p, tb, nf, mx, r) == sio_send_body(p, tb, nf, mx, r)

\* One pass of sio_recv's loop body (lines 223-254) on the result r of recv().
sio_recv_body(p, tb, nf, mx, r) ==
    IF r.t = SOCK_ERR THEN
        IF ~WouldBlock(p, r.e)
        THEN [tb |-> tb, nf |-> nf + 1, sel |-> FALSE,
              site |-> IF p = "win32" THEN 234 ELSE 242]
        ELSE [tb |-> tb, nf |-> nf + 1, sel |-> TRUE,
              site |-> IF BudgetSpent(nf + 1, mx) THEN 246 ELSE 0]
    ELSE IF r.t > 0
    THEN [tb |-> tb + r.t, nf |-> NfailsAfterProgress(nf), sel |-> FALSE, site |-> 0]
    ELSE [tb |-> tb, nf |-> nf, sel |-> FALSE, site |-> 254]

Record(h, r) == IF Len(h) < MaxHist THEN Append(h, r) ELSE h

\* The value of each return statement of sio_send and sio_recv: 0 at the
\* end of the function (lines 206, 257), -1 at every other one (lines 185,
\* 193, 198, 234, 242, 246, 254).
ReturnValue(s) == IF s \in {206, 257} THEN 0 ELSE -1

\* The buffer the caller passes: for sio_send l bytes of data, told apart by
\* their values; for sio_recv l bytes not yet written (0).  The bytes the
\* peer sends are told apart too: Incoming(k, n) are the n bytes that follow
\* the first k of the stream.
CallerData(l) == [i \in 1..l |-> i]
Blank(l) == [i \in 1..l |-> 0]
Incoming(k, n) == [i \in 1..n |-> k + i]

\* The byte at buf + i - 1; past the end of the buffer it is not the
\* caller's data (-1).
Mem(b, i) == IF i \in 1..Len(b) THEN b[i] ELSE -1

\* SendArgs starting every send() at the head of the buffer.
SendArgs_head(tb, l) == [off |-> 0, cnt |-> l - tb]

\* The buffer arguments of send() (lines 174-175): &buf[total_bytes] and
\* len - total_bytes.
SendArgs(tb, l) == [off |-> tb, cnt |-> l - tb]

\* RecvArgs passing the address one byte further.
RecvArgs_next(tb, l) == [off |-> tb + 1, cnt |-> l - tb]

\* The buffer arguments of recv() (lines 223-224), the same two.
RecvArgs(tb, l) == [off |-> tb, cnt |-> l - tb]

\* What send() puts on the wire when it takes n bytes from offset off, and
\* the buffer after recv() has stored the bytes d at offset off.
Taken(b, off, n) == [i \in 1..n |-> Mem(b, off + i)]
Stored(b, off, d) ==
    [i \in 1..Len(b) |-> IF off < i /\ i <= off + Len(d) THEN d[i - off] ELSE b[i]]

\* The call of sio_send / sio_recv: the locals are set (lines 168-170,
\* 218-220) and the loop condition is tested a first time.
Enter(op, c, l) ==
    /\ cur' = c
    /\ len' = l
    /\ total_bytes' = 0
    /\ nfails' = 0
    /\ hist' = <<>>
    /\ wait' = NoWait
    /\ buf' = (IF op = "send" THEN CallerData(l) ELSE Blank(l))
    /\ wire' = <<>>
    /\ nwaits' = 0
    /\ runwaits' = 0
    /\ IF LoopGoesOn(0, l)
       THEN pc' = op /\ ret' = 1 /\ site' = 0
       ELSE LET s == IF op = "send" THEN 206 ELSE 257
            IN  pc' = "idle" /\ ret' = ReturnValue(s) /\ site' = s
    /\ UNCHANGED plat
    /\ UNCHANGED lifeVars

sio_send(c, l) ==
    /\ pc = "idle"
    /\ Enter("send", c, l)

sio_recv(c, l) ==
    /\ pc = "idle"
    /\ Enter("recv", c, l)

\* One pass of the loop: the platform call, the loop body, and the loop
\* condition tested again (the return of line 206 / 257 when it fails).
Pass(op, mode) ==
    /\ LET a == IF op = "send" THEN SendArgs(total_bytes, len)
                ELSE RecvArgs(total_bytes, len)
       IN
       \E r \in XferResults(plat, socket[cur], live, a.cnt),
          m \in SelectModes(plat, mode), selres \in SelectResults :
        LET b == IF op = "send"
                 THEN sio_send_body(plat, total_bytes, nfails, maxnfails[cur], r)
                 ELSE sio_recv_body(plat, total_bytes, nfails, maxnfails[cur], r)
            n == IF r.t > 0 THEN r.t ELSE 0
            d == Incoming(Len(wire), n)
        IN  /\ total_bytes' = b.tb
            /\ nfails' = b.nf
            /\ hist' = Record(hist, r)
            /\ IF op = "send"
               THEN buf' = buf /\ wire' = wire \o Taken(buf, a.off, n)
               ELSE buf' = Stored(buf, a.off, d) /\ wire' = wire \o d
            /\ IF b.sel
               THEN /\ wait' = Waited(sio_select_sets(socket[cur], m, timeout[cur]),
                                      sio_select(selres))
                    /\ nwaits' = (IF Len(hist) < MaxHist THEN nwaits + 1 ELSE nwaits)
                    /\ runwaits' = runwaits + 1
               ELSE /\ m = mode /\ selres = 0
                    /\ wait' = NoWait
                    /\ nwaits' = nwaits
                    /\ runwaits' = 0
            /\ IF b.site # 0
               THEN pc' = "idle" /\ ret' = ReturnValue(b.site) /\ site' = b.site
               ELSE IF LoopGoesOn(b.tb, len)
               THEN pc' = op /\ ret' = ret /\ site' = site
               ELSE LET s == IF op = "send" THEN 206 ELSE 257
                    IN  pc' = "idle" /\ ret' = ReturnValue(s) /\ site' = s
    /\ UNCHANGED <<plat, cur, len>>
    /\ UNCHANGED lifeVars

SendPass ==
    /\ pc = "send"
    /\ Pass("send", SELECT_WRITE)

RecvPass ==
    /\ pc = "recv"
    /\ Pass("recv", SELECT_READ)

\* ------------------------------------------------- the specifications

XferIdle ==
    /\ pc = "idle" /\ cur = 1 /\ len = 0 /\ total_bytes = 0 /\ nfails = 0
    /\ ret = 1 /\ site = 0 /\ hist = <<>> /\ wait = NoWait
    /\ buf = <<>> /\ wire = <<>> /\ nwaits = 0 /\ runwaits = 0

\* The lifecycle calls on two structs that were never opened.
Init ==
    /\ plat \in Plats
    /\ socket = [c \in Conns |-> INV_SOCK]
    /\ opts = [c \in Conns |-> {}]
    /\ timeout = [c \in Conns |-> 1]
    /\ maxnfails = [c \in Conns |-> MaxFails]
    /\ live = {}
    /\ owner = [fd \in SockFds |-> 0]
    /\ nonblk = {}
    /\ wsa = 0
    /\ last = NoCall
    /\ XferIdle

Next ==
    \E c \in Conns :
        \/ \E opt \in Opts : sio_set_option(c, opt)
        \/ sio_socket(c)
        \/ sio_close(c)

Spec == Init /\ [][Next]_vars

\* Struct 1 was set non-blocking and opened, struct 2 never was.
Opened1 ==
    /\ plat \in Plats
    /\ socket = [c \in Conns |-> IF c = 1 THEN FirstSock ELSE INV_SOCK]
    /\ opts = [c \in Conns |-> IF c = 1 THEN {SIO_NONBLOCK} ELSE {}]
    /\ timeout = [c \in Conns |-> 1]
    /\ live = {FirstSock}
    /\ owner = [fd \in SockFds |-> IF fd = FirstSock THEN 1 ELSE 0]
    /\ nonblk = {FirstSock}
    /\ wsa = (IF plat = "win32" THEN 1 ELSE 0)
    /\ last = [NoCall EXCEPT !.op = "socket", !.c = 1, !.fd = FirstSock,
                             !.wsaup = 1, !.nb = TRUE]
    /\ XferIdle

\* The connect calls, between changes of the timeout and of maxnfails.
ConnInit ==
    /\ Opened1
    /\ maxnfails = [c \in Conns |-> MaxFails]

ConnNext ==
    \E c \in Conns :
        \/ \E s \in Timeouts : sio_set_timeout(c, s)
        \/ \E n \in FailVals : sio_set_maxnfails(c, n)
        \/ \E host \in Hosts : sio_connect(c, host)

ConnSpec == ConnInit /\ [][ConnNext]_vars

\* The transfers, with some maxnfails set on struct 1.
XferInit ==
    /\ Opened1
    /\ \E n \in FailVals : maxnfails = [c \in Conns |-> IF c = 1 THEN n ELSE MaxFails]

XferNext ==
    \/ \E c \in Conns, l \in 0..MaxLen : sio_send(c, l)
    \/ \E c \in Conns, l \in 0..MaxLen : sio_recv(c, l)
    \/ SendPass
    \/ RecvPass

XferSpec == XferInit /\ [][XferNext]_vars

\* The calling thread runs the loop it is in: a pass that can be taken is taken.
XferFair == XferSpec /\ WF_vars(SendPass) /\ WF_vars(RecvPass)

\* ------------------------------------------------------------- claims

\* What the claims say of a platform result, in their own words.
IsWouldBlock(r) ==
    r.t = SOCK_ERR /\ r.e \in {"EAGAIN", "EWOULDBLOCK", "WSAEWOULDBLOCK"}
RECURSIVE Moved(_)
\* The bytes the platform calls of a history moved.
Moved(h) == IF h = <<>> THEN 0
            ELSE (IF Head(h).t > 0 THEN Head(h).t ELSE 0) + Moved(Tail(h))
RECURSIVE TrailingWb(_)
\* The would-block results a history ends with, in a row.
TrailingWb(h) ==
    IF h = <<>> \/ ~IsWouldBlock(h[Len(h)]) THEN 0
    ELSE 1 + TrailingWb(SubSeq(h, 1, Len(h) - 1))
Returned == pc = "idle" /\ site # 0
TimeoutSites == {198, 246}
\* The whole call is in hist: nothing was left out of the record.
HistWhole == Len(hist) < MaxHist

\* C1: a send or receive call returns success (0) only when total_bytes
\* equals len exactly, and then the platform calls of the call have
\* moved exactly len bytes.
C1_SuccessIsFullTransfer ==
    (Returned /\ ret = 0) =>
        /\ total_bytes = len
        /\ HistWhole => Moved(hist) = len

\* A successful call that went through a would-block and two partial transfers.
C1_Witness ==
    /\ Returned /\ ret = 0 /\ len = MaxLen /\ Len(hist) >= 3
    /\ \E i \in 1..Len(hist) : IsWouldBlock(hist[i])

\* The results the claim C2 lists, for a budget of mx: would-block,
\* would-block, one byte, then mx - 1 would-blocks.
C2Pattern(mx) ==
    [i \in 1..(mx + 2) |->
        IF i = 3 THEN [t |-> 1, e |-> "none"]
        ELSE [t |-> SOCK_ERR, e |-> IF plat = "win32" THEN "WSAEWOULDBLOCK" ELSE "EAGAIN"]]

\* C2: with maxnfails >= 3 and more than one byte asked for, a call whose
\* platform results so far are a non-empty prefix of (would-block,
\* would-block, 1 byte, maxnfails - 1 would-blocks) has not failed: it is
\* still in its loop, the counter having been reset by the byte; and if
\* the remaining bytes are moved next, it returns success.
C2_ProgressResetsBudget ==
    LET mx == maxnfails[cur]
        P == C2Pattern(mx)
    IN  (mx >= 3 /\ len >= 2 /\ hist # <<>>) =>
            /\ (Len(hist) <= mx + 2 /\ hist = SubSeq(P, 1, Len(hist)))
                   => /\ pc # "idle"
                      /\ Len(hist) >= 3 => nfails = Len(hist) - 3
            /\ hist = Append(P, [t |-> len - 1, e |-> "none"])
                   => Returned /\ ret = 0

\* The whole sequence of C2 happened and the call then succeeded.
C2_Witness ==
    /\ maxnfails[cur] >= 3 /\ len >= 2
    /\ hist = Append(C2Pattern(maxnfails[cur]), [t |-> len - 1, e |-> "none"])
    /\ Returned /\ ret = 0

\* C3: with maxnfails >= 1, a call has returned from the timeout return
\* (line 198 / 246) exactly when its platform results end with maxnfails
\* would-blocks in a row; no history ends with more of them, so no
\* platform call follows the maxnfails-th.
C3_TimeoutExactlyAtBudget ==
    LET mx == maxnfails[cur]
        run == TrailingWb(hist)
    IN  (mx >= 1 /\ HistWhole) =>
            /\ (Returned /\ site \in TimeoutSites) <=> run >= mx
            /\ run <= mx

\* A timeout after some progress: the bytes moved, then maxnfails would-blocks.
C3_Witness ==
    /\ Returned /\ site \in TimeoutSites /\ maxnfails[cur] >= 2
    /\ total_bytes > 0 /\ HistWhole
    /\ TrailingWb(hist) = maxnfails[cur]

\* C4: every send and receive call returns: a call that is in its loop
\* leaves it, whatever the platform answers.
C4_TransferTerminates == (pc # "idle") ~> (pc = "idle")

\* C5: a connect whose host inet_pton does not accept returns an error
\* with no connect() attempt and no readiness wait.
C5_NoSocketOpOnBadHost ==
    (last.op = "connect" /\ last.parsed # 1) =>
        /\ last.ret = -1
        /\ last.att = <<>>
        /\ last.waits = <<>>

\* The codes by which a platform reports a handshake still in progress
\* (on linux EAGAIN from connect() is a shortage of local ports or
\* routing entries, not a handshake in progress).
HandshakePending(code) == code \in {"EINPROGRESS", "WSAEINPROGRESS", "WSAEWOULDBLOCK"}

\* C6: a connect call makes one connect() attempt; it waits for readiness
\* exactly once, for writing and for sio->timeout seconds, when the
\* attempt reports the handshake in progress, and not at all when the
\* attempt succeeds or fails with another code, whatever maxnfails is; a
\* wait that does not report the socket ready fails the call at once.
C6_ConnectWaitsOnce ==
    last.op = "connect" =>
        /\ Len(last.att) = 1
        /\ Len(last.waits) = (IF HandshakePending(last.code) THEN 1 ELSE 0)
        /\ \A i \in 1..Len(last.waits) :
              /\ last.waits[i].wr /\ ~last.waits[i].rd
              /\ last.waits[i].tmo = timeout[last.c]
        /\ (HandshakePending(last.code) /\ last.sel # 1) => last.ret = -1

\* A handshake that timed out: one wait, not ready, failure, with the
\* largest maxnfails.
C6_Witness ==
    /\ last.op = "connect" /\ HandshakePending(last.code)
    /\ Len(last.waits) = 1 /\ last.sel = 0 /\ last.ret = -1
    /\ maxnfails[last.c] = MaxFails /\ timeout[last.c] = 2

\* C7: connect's result is: success on immediate success; on a handshake
\* in progress, success exactly when the wait reports write-ready and
\* SO_ERROR reads 0; failure on any other code.
C7_ConnectResult ==
    last.op = "connect" =>
        last.ret = (IF last.code = "ok" THEN 0
                    ELSE IF HandshakePending(last.code)
                            /\ last.sel = 1 /\ last.soerr = 0 THEN 0
                    ELSE -1)

\* C8: after close the handle is the sentinel, and a close of a struct
\* whose handle already was the sentinel (closed before, or never opened)
\* releases no descriptor.
C8_CloseIdempotent ==
    last.op = "close" =>
        /\ socket[last.c] = INV_SOCK
        /\ last.pre = INV_SOCK => last.rel = {}

\* C9: an open that fails leaves no descriptor allocated that was not
\* before (the one socket() gave, if any, is released again); an open
\* that succeeds leaves the handle on a live descriptor which, when
\* non-blocking was asked for, is in non-blocking mode.
C9_OpenFailureLeaksNothing ==
    last.op = "socket" =>
        /\ last.ret # 0 =>
              /\ last.new = {}
              /\ last.fd # INV_SOCK => last.fd \notin live
        /\ last.ret = 0 =>
              /\ socket[last.c] = last.fd
              /\ last.fd \in live
              /\ SIO_NONBLOCK \in opts[last.c] => last.fd \in nonblk

\* An open that failed after socket() had given a descriptor: the
\* descriptor was released.
C9_Witness ==
    /\ last.op = "socket" /\ last.ret = -1
    /\ last.fd # INV_SOCK /\ last.fd \in last.rel /\ last.fd \notin live
    /\ socket[last.c] = INV_SOCK

\* C10: each handle is the sentinel or a live descriptor that the
\* struct's own open allocated; every live descriptor an open allocated
\* is the handle of that struct; a failed open leaves the sentinel.
C10_HandleInvariant ==
    /\ \A c \in Conns :
          socket[c] = INV_SOCK \/ (socket[c] \in live /\ owner[socket[c]] = c)
    /\ \A fd \in live : owner[fd] # 0 => socket[owner[fd]] = fd
    /\ (last.op = "socket" /\ last.ret # 0) => socket[last.c] = INV_SOCK

\* The return statements of sio_send and of sio_recv, and the call a
\* state is in or has last returned from.
SendSites == {185, 193, 198, 206}
RecvSites == {234, 242, 246, 254, 257}
CallOp == IF pc # "idle" THEN pc
          ELSE IF site \in SendSites THEN "send"
          ELSE IF site \in RecvSites THEN "recv"
          ELSE "none"
LastResult == hist[Len(hist)]

\* C11: in sio_recv a recv() result of 0 is terminal: the call has
\* returned -1 from that pass (line 254), whatever nfails was, with no
\* sio_select in the pass and no recv() after it.
C11_ZeroReadIsTerminal ==
    (CallOp = "recv" /\ HistWhole /\ hist # <<>> /\ LastResult.t = 0) =>
        /\ Returned /\ ret = -1 /\ site = 254
        /\ wait = NoWait

\* A peer close seen after a byte and a would-block: nfails was not 0.
C11_Witness ==
    /\ CallOp = "recv" /\ HistWhole /\ Len(hist) >= 3 /\ LastResult.t = 0
    /\ Returned /\ site = 254 /\ total_bytes > 0 /\ nfails > 0

\* The kind of failure each return statement stands for: the retry budget
\* spent, the peer's close, an error of the platform call.
ErrorKind(s) == IF s \in TimeoutSites THEN "timeout"
                ELSE IF s = 254 THEN "closed"
                ELSE IF s \in {185, 193, 234, 242} THEN "platform"
                ELSE "none"

\* C12: the failure kinds of one operation can be told apart by the
\* caller: the value a failed call returned differs from the value the same
\* function returns for each other kind of failure.
C12_ErrorKindsDistinct ==
    (Returned /\ ErrorKind(site) # "none") =>
        \A s \in (IF site \in SendSites THEN SendSites ELSE RecvSites) :
            ErrorKind(s) \notin {"none", ErrorKind(site)} => ReturnValue(s) # ret

\* C13: a sio_send or sio_recv call with len = 0 has returned 0 from the
\* end of the function without any send()/recv() and without any
\* sio_select, whatever the socket is.
C13_ZeroLengthReturnsAtOnce ==
    (CallOp # "none" /\ len = 0) =>
        /\ Returned /\ ret = 0 /\ site \in {206, 257}
        /\ hist = <<>> /\ wait = NoWait /\ nwaits = 0

\* A zero-length send on the struct that was never opened.
C13_Witness ==
    /\ CallOp = "send" /\ len = 0 /\ Returned /\ ret = 0
    /\ socket[cur] = INV_SOCK

RunBound(mx) == IF mx >= 1 THEN mx ELSE 1

\* C15 as stated: the sio_select calls of one sio_send / sio_recv call,
\* over the whole call, are at most maxnfails.
C15_TotalWaitsBounded ==
    CallOp # "none" => nwaits <= maxnfails[cur]

\* C15, amended: the sio_select calls a call makes in a row, with no
\* result other than would-block in between, are at most maxnfails (one
\* when maxnfails is 0).
C15_WaitsInARowBounded ==
    CallOp # "none" => runwaits <= RunBound(maxnfails[cur])

\* A run of maxnfails waits, in a call that has waited more often than that.
C15_Witness ==
    /\ CallOp # "none" /\ maxnfails[cur] >= 2
    /\ runwaits = maxnfails[cur] /\ nwaits > maxnfails[cur]

\* C16: an error of send()/recv() that is not would-block is terminal:
\* the call has returned -1 from that pass, with no sio_select in it and no
\* platform call after it, whatever nfails and maxnfails are.
C16_HardErrorIsTerminal ==
    (CallOp # "none" /\ HistWhole /\ hist # <<>>
       /\ LastResult.t = SOCK_ERR /\ ~IsWouldBlock(LastResult)) =>
        /\ Returned /\ ret = -1 /\ site \in {185, 193, 234, 242}
        /\ wait = NoWait /\ runwaits = 0

\* A hard error after a would-block, with budget left.
C16_Witness ==
    /\ CallOp # "none" /\ HistWhole /\ Len(hist) >= 2 /\ socket[cur] \in live
    /\ LastResult.t = SOCK_ERR /\ ~IsWouldBlock(LastResult)
    /\ Returned /\ nfails >= 2 /\ nfails < maxnfails[cur]

\* C17: a pass makes a sio_select exactly when its send()/recv() reported
\* would-block, and that one polls the struct's own socket, for writing
\* only in sio_send and for reading only in sio_recv, with the struct's
\* timeout.
C17_WaitMatchesDirection ==
    (CallOp # "none" /\ HistWhole /\ hist # <<>>) =>
        IF IsWouldBlock(LastResult)
        THEN /\ wait.fd = socket[cur] /\ wait.tmo = timeout[cur]
             /\ wait.wr = (CallOp = "send")
             /\ wait.rd = (CallOp = "recv")
        ELSE wait = NoWait

\* C19: in sio_send the bytes send() has taken so far are the first
\* total_bytes bytes of the caller's buffer, each once and in order,
\* total_bytes is at most len, and on success they are the whole buffer.
C19_SendCoversBuffer ==
    CallOp = "send" =>
        /\ total_bytes <= len /\ Len(wire) = total_bytes
        /\ \A i \in 1..Len(wire) : wire[i] = buf[i]
        /\ (Returned /\ ret = 0) => wire = buf

\* A buffer sent in two pieces, with something else in between.
C19_Witness ==
    /\ CallOp = "send" /\ Returned /\ ret = 0
    /\ len >= 2 /\ HistWhole /\ Len(hist) >= 3

\* C18: Winsock is torn down no more often than it was initialised: a
\* call makes no WSACleanup() beyond the WSAStartup() calls outstanding,
\* and Winsock stays initialised while a struct holds a handle.
C18_TeardownsMatchInits ==
    plat = "win32" =>
        /\ last.cleanups <= last.wsapre + last.wsaup
        /\ \A c \in Conns : socket[c] # INV_SOCK => wsa >= 1

\* C20: sio_connect issues its connect() and its sio_select on the handle
\* sio_socket stored in the struct, and leaves the handle as it was.
C20_ConnectOnOwnHandle ==
    last.op = "connect" =>
        /\ \A i \in 1..Len(last.att) : last.att[i] = last.pre
        /\ \A i \in 1..Len(last.waits) : last.waits[i].fd = last.pre
        /\ socket[last.c] = last.pre

====
